---- MODULE Spec2Model ----
(***************************************************************************)
(* Model of asartool.py: the Asar class (open, compress, list_files,       *)
(* extract_file, extract, __exit__) and the module-level helpers           *)
(* pack_asar, extract_asar, list_asar_files and extract_asar_file.         *)
(*                                                                         *)
(* Byte strings and text are sequences of byte values (0..255); names and  *)
(* paths are ASCII, so one character is one byte.  A Python dict is an     *)
(* ordered sequence of <<key, value>> pairs (insertion order).  A JSON     *)
(* value is a record [t, kv, s, n]: t is "obj", "str", "int" or "true".    *)
(***************************************************************************)
EXTENDS Integers, Sequences, FiniteSets, TLC

(* ------------------------------ bounds --------------------------------- *)
\* largest size of a regular file in the source directory
MaxSize == 1

(* --------------------------- byte strings ------------------------------ *)
\* "files", "size", "offset", "link", "unpacked" as ASCII
K_files == <<102, 105, 108, 101, 115>>
K_size == <<115, 105, 122, 101>>
K_offset == <<111, 102, 102, 115, 101, 116>>
K_link == <<108, 105, 110, 107>>
K_unpacked == <<117, 110, 112, 97, 99, 107, 101, 100>>
\* ".unpacked", "."
S_unpackedSuffix == <<46>> \o K_unpacked
S_dot == <<46>>

SLASH == 47
BACKSLASH == 92
QUOTE == 34
LBRACE == 123
RBRACE == 125
COLON == 58
COMMA == 44
ZERO == 48

\* the elements of s from position i to the end (Python s[i-1:])
Drop(s, i) == IF i > Len(s) THEN <<>> ELSE SubSeq(s, i, Len(s))

\* the first n elements of s (Python s[:n])
Take(s, n) == IF n >= Len(s) THEN s ELSE SubSeq(s, 1, n)

\* str.startswith
StartsWith(s, p) == Len(p) <= Len(s) /\ SubSeq(s, 1, Len(p)) = p

\* the `in` operator on strings: p occurs in s as a contiguous substring
Contains(s, p) ==
    \E i \in 1..(Len(s) - Len(p) + 1) : SubSeq(s, i, i + Len(p) - 1) = p

\* str < str : lexicographic comparison by code point
RECURSIVE LexLess(_, _)
LexLess(s, t) ==
    IF t = <<>> THEN FALSE
    ELSE IF s = <<>> THEN TRUE
    ELSE IF s[1] # t[1] THEN s[1] < t[1]
    ELSE LexLess(Tail(s), Tail(t))

\* str.replace('\\', '/')
ReplaceBackslash(s) == [i \in 1..Len(s) |-> IF s[i] = BACKSLASH THEN SLASH ELSE s[i]]

\* str.split('/') : always at least one part
RECURSIVE SplitFrom(_, _, _)
SplitFrom(s, start, i) ==
    IF i > Len(s) THEN <<SubSeq(s, start, Len(s))>>
    ELSE IF s[i] = SLASH
         THEN <<SubSeq(s, start, i - 1)>> \o SplitFrom(s, i + 1, i + 1)
    ELSE SplitFrom(s, start, i + 1)

SplitSlash(s) == SplitFrom(s, 1, 1)

\* str(int) for a non-negative integer
RECURSIVE Dec(_)
Dec(n) == IF n < 10 THEN <<ZERO + n>> ELSE Dec(n \div 10) \o <<ZERO + (n % 10)>>

\* int(str): [ok, n]; Python raises ValueError when ok is FALSE
RECURSIVE DigitsValue(_, _)
DigitsValue(s, acc) ==
    IF s = <<>> THEN acc ELSE DigitsValue(Tail(s), acc * 10 + (s[1] - ZERO))

IsDigits(s) == s # <<>> /\ \A i \in 1..Len(s) : s[i] \in ZERO..(ZERO + 9)

ParseInt(s) == IF IsDigits(s) THEN [ok |-> TRUE, n |-> DigitsValue(s, 0)]
               ELSE [ok |-> FALSE, n |-> 0]

(* ------------------------------ round_up -------------------------------- *)
\* round_up with the -1 left out: an aligned size is pushed to the next
\* multiple
round_up_next(i, m) == ((i + m) \div m) * m

\* (i + m - 1) & ~(m - 1) for m a power of two
round_up(i, m) == ((i + m - 1) \div m) * m

(* -------------------------- os.path (posixpath) ------------------------- *)
\* os.path.join(a, b)
Join(a, b) ==
    IF b # <<>> /\ b[1] = SLASH THEN b
    ELSE IF a = <<>> \/ a[Len(a)] = SLASH THEN a \o b
    ELSE a \o <<SLASH>> \o b

\* index of the last '/' in p, 0 when there is none (p.rfind('/') + 1)
RECURSIVE LastSlashFrom(_, _)
LastSlashFrom(p, i) ==
    IF i = 0 \/ p[i] = SLASH THEN i ELSE LastSlashFrom(p, i - 1)

LastSlash(p) == LastSlashFrom(p, Len(p))

RECURSIVE RStripSlash(_)
RStripSlash(p) ==
    IF p # <<>> /\ p[Len(p)] = SLASH THEN RStripSlash(Take(p, Len(p) - 1)) ELSE p

\* os.path.dirname
DirnameOfHead(head) ==
    IF head # <<>> /\ \E i \in 1..Len(head) : head[i] # SLASH
    THEN RStripSlash(head) ELSE head

Dirname(p) == DirnameOfHead(Take(p, LastSlash(p)))

\* os.path.basename
Basename(p) == Drop(p, LastSlash(p) + 1)

\* the components of a path kept by normpath: '' and '.' dropped, '..' pops
RECURSIVE NormParts(_, _)
NormParts(parts, acc) ==
    IF parts = <<>> THEN acc
    ELSE IF parts[1] = <<>> \/ parts[1] = S_dot THEN NormParts(Tail(parts), acc)
    ELSE IF parts[1] = <<46, 46>> /\ acc # <<>> /\ acc[Len(acc)] # <<46, 46>>
         THEN NormParts(Tail(parts), Take(acc, Len(acc) - 1))
    ELSE NormParts(Tail(parts), Append(acc, parts[1]))

RECURSIVE JoinParts(_)
JoinParts(parts) ==
    IF parts = <<>> THEN <<>>
    ELSE IF Len(parts) = 1 THEN parts[1]
    ELSE parts[1] \o <<SLASH>> \o JoinParts(Tail(parts))

\* os.path.normpath
NormpathOfBody(p, body) ==
    IF p # <<>> /\ p[1] = SLASH THEN <<SLASH>> \o body
    ELSE IF body = <<>> THEN S_dot ELSE body

Normpath(p) == NormpathOfBody(p, JoinParts(NormParts(SplitSlash(p), <<>>)))

(* ------------------------------ dicts / JSON ---------------------------- *)
JObj(kv) == [t |-> "obj", kv |-> kv, s |-> <<>>, n |-> 0]
JStr(s) == [t |-> "str", kv |-> <<>>, s |-> s, n |-> 0]
JInt(n) == [t |-> "int", kv |-> <<>>, s |-> <<>>, n |-> n]
JTrue == [t |-> "true", kv |-> <<>>, s |-> <<>>, n |-> 0]

\* key in dict
HasKey(d, k) == d.t = "obj" /\ \E i \in 1..Len(d.kv) : d.kv[i][1] = k

\* dict[key]
Get(d, k) == d.kv[CHOOSE i \in 1..Len(d.kv) : d.kv[i][1] = k][2]

\* dict[key] = value : replaces in place, or appends a new key at the end
Put(d, k, v) ==
    IF HasKey(d, k)
    THEN JObj([i \in 1..Len(d.kv) |-> IF d.kv[i][1] = k THEN <<k, v>> ELSE d.kv[i]])
    ELSE JObj(Append(d.kv, <<k, v>>))

\* sorted(dict.items()) by key, as json.dumps(sort_keys=True) does
RECURSIVE InsertSorted(_, _)
InsertSorted(sorted, pair) ==
    IF sorted = <<>> THEN <<pair>>
    ELSE IF LexLess(pair[1], Head(sorted)[1]) THEN <<pair>> \o sorted
    ELSE <<Head(sorted)>> \o InsertSorted(Tail(sorted), pair)

\* json.dumps without sort_keys: the items stay in insertion order
InsertionOrder(kv) == kv

RECURSIVE SortItems(_)
SortItems(kv) ==
    IF kv = <<>> THEN <<>> ELSE InsertSorted(SortItems(Take(kv, Len(kv) - 1)), kv[Len(kv)])

\* a JSON string literal; the names of the model need no escape sequence
DumpStr(s) == <<QUOTE>> \o s \o <<QUOTE>>

\* json.dumps(v, sort_keys=True, separators=(',', ':')).encode('utf-8')
RECURSIVE JsonDumpsSorted(_)
RECURSIVE DumpItems(_)
DumpItems(kv) ==
    IF kv = <<>> THEN <<>>
    ELSE DumpStr(kv[1][1]) \o <<COLON>> \o JsonDumpsSorted(kv[1][2])
         \o (IF Len(kv) > 1 THEN <<COMMA>> \o DumpItems(Tail(kv)) ELSE <<>>)

JsonDumpsSorted(v) ==
    CASE v.t = "obj" -> <<LBRACE>> \o DumpItems(SortItems(v.kv)) \o <<RBRACE>>
      [] v.t = "str" -> DumpStr(v.s)
      [] v.t = "int" -> Dec(v.n)
      [] OTHER -> <<116, 114, 117, 101>>

JsonFail == [ok |-> FALSE, v |-> JTrue, i |-> 0]

\* the position of the first quote at or after s[j], 0 when there is none
RECURSIVE NextQuote(_, _)
NextQuote(s, j) ==
    IF j > Len(s) THEN 0 ELSE IF s[j] = QUOTE THEN j ELSE NextQuote(s, j + 1)

\* the string literal that starts at the quote s[i] and ends at the quote
\* s[j]: [ok, v, i]; escape sequences and control characters are outside
\* the strings of the model and are rejected
StringBetween(s, i, j) ==
    IF j = 0 \/ \E k \in (i + 1)..(j - 1) : s[k] = BACKSLASH \/ s[k] < 32
    THEN JsonFail
    ELSE [ok |-> TRUE, v |-> JStr(SubSeq(s, i + 1, j - 1)), i |-> j + 1]

ParseString(s, i) == StringBetween(s, i, NextQuote(s, i + 1))

\* the maximal run of digits starting at s[i]
RECURSIVE DigitRunEnd(_, _)
DigitRunEnd(s, i) ==
    IF i <= Len(s) /\ s[i] \in ZERO..(ZERO + 9) THEN DigitRunEnd(s, i + 1) ELSE i

\* the number literal s[i..j-1]; a leading zero before another digit is an error
NumberBetween(s, i, j) ==
    IF s[i] = ZERO /\ j > i + 1 THEN JsonFail
    ELSE [ok |-> TRUE, v |-> JInt(DigitsValue(SubSeq(s, i, j - 1), 0)), i |-> j]

\* json.loads on the text forms the archives of the model contain: objects,
\* strings without escapes, non-negative integers and true, no white space.
\* ParseValue(s, i) = [ok, v, i] : the value that starts at s[i] and the
\* position after it; ok = FALSE is json.JSONDecodeError.
RECURSIVE ParseValue(_, _)
RECURSIVE ParseMembers(_, _, _)

\* after the member key k.v.s and its value val: '}' ends the object, ','
\* continues it
AfterMember(s, acc, k, val) ==
    IF ~val.ok \/ val.i > Len(s) THEN JsonFail
    ELSE IF s[val.i] = RBRACE
         THEN [ok |-> TRUE, v |-> Put(acc, k.v.s, val.v), i |-> val.i + 1]
    ELSE IF s[val.i] = COMMA
         THEN ParseMembers(s, val.i + 1, Put(acc, k.v.s, val.v))
    ELSE JsonFail

\* after the member key k: a ':' and a value must follow
AfterKey(s, acc, k) ==
    IF ~k.ok \/ k.i > Len(s) \/ s[k.i] # COLON THEN JsonFail
    ELSE AfterMember(s, acc, k, ParseValue(s, k.i + 1))

ParseMembers(s, i, acc) ==
    IF i > Len(s) \/ s[i] # QUOTE THEN JsonFail
    ELSE AfterKey(s, acc, ParseString(s, i))

ParseValue(s, i) ==
    IF i > Len(s) THEN JsonFail
    ELSE IF s[i] = LBRACE
         THEN IF i + 1 <= Len(s) /\ s[i + 1] = RBRACE
              THEN [ok |-> TRUE, v |-> JObj(<<>>), i |-> i + 2]
              ELSE ParseMembers(s, i + 1, JObj(<<>>))
    ELSE IF s[i] = QUOTE THEN ParseString(s, i)
    ELSE IF s[i] \in ZERO..(ZERO + 9) THEN NumberBetween(s, i, DigitRunEnd(s, i))
    ELSE IF i + 3 <= Len(s) /\ SubSeq(s, i, i + 3) = <<116, 114, 117, 101>>
         THEN [ok |-> TRUE, v |-> JTrue, i |-> i + 4]
    ELSE JsonFail

\* json.loads(text) : [ok, v]; trailing text after the value is an error
WholeValue(s, r) ==
    IF r.ok /\ r.i = Len(s) + 1 THEN [ok |-> TRUE, v |-> r.v]
    ELSE [ok |-> FALSE, v |-> JTrue]

JsonLoads(s) == WholeValue(s, ParseValue(s, 1))

\* bytes.decode('utf-8') succeeds: every byte of the model's archives is
\* either ASCII or 0xFF, which no UTF-8 sequence contains
Utf8Ok(s) == \A i \in 1..Len(s) : s[i] < 128

(* ------------------------------- struct -------------------------------- *)
\* struct.pack('<I', n) : 4 bytes, little-endian
LE32(n) == <<n % 256, (n \div 256) % 256, (n \div 65536) % 256, (n \div 16777216) % 256>>

\* struct.unpack('<I', b)
UnLE32(b) == b[1] + 256 * b[2] + 65536 * b[3] + 16777216 * b[4]

\* struct.pack('<4I', a, b, c, d)
Pack4I(a, b, c, d) == LE32(a) \o LE32(b) \o LE32(c) \o LE32(d)

\* b'\0' * n
RECURSIVE Nuls(_)
Nuls(n) == IF n <= 0 THEN <<>> ELSE <<0>> \o Nuls(n - 1)

(* ------------------------- the source directory ------------------------ *)
\* An entry of a directory: kind is "file", "dir" or "link".  data is the
\* content of a regular file and readable says whether open(path, 'rb')
\* succeeds; target is the name a symlink points to, relative to its own
\* directory; children is a directory's entries in os.scandir order and
\* mode its permission: "rx" (listable and searchable), "none" (os.scandir
\* raises PermissionError) or "r" (listable, but stat of an entry raises
\* PermissionError).
FileEntry(name, data, readable) ==
    [name |-> name, kind |-> "file", data |-> data, readable |-> readable,
     target |-> <<>>, children |-> <<>>, mode |-> "rx"]

LinkEntry(name, target) ==
    [name |-> name, kind |-> "link", data |-> <<>>, readable |-> TRUE,
     target |-> target, children |-> <<>>, mode |-> "rx"]

DirEntry(name, children, mode) ==
    [name |-> name, kind |-> "dir", data |-> <<>>, readable |-> TRUE,
     target |-> <<>>, children |-> children, mode |-> mode]

NoEntry ==
    [name |-> <<>>, kind |-> "none", data |-> <<>>, readable |-> FALSE,
     target |-> <<>>, children |-> <<>>, mode |-> "none"]

\* the path given to compress / pack_asar, and the two working directories
RootPath == <<SLASH, 115>>
OtherCwd == <<SLASH, 119>>

\* the position of the entry called name among entries, 0 when there is none
RECURSIVE IndexOfName(_, _, _)
IndexOfName(entries, name, i) ==
    IF i > Len(entries) THEN 0
    ELSE IF entries[i].name = name THEN i
    ELSE IndexOfName(entries, name, i + 1)

EntryAt(entries, i) == IF i = 0 THEN NoEntry ELSE entries[i]

\* the entry called name among entries, NoEntry when there is none
Named(entries, name) == EntryAt(entries, IndexOfName(entries, name, 1))

\* what stat (following symlinks) finds for entry e of a directory whose
\* entries are siblings; a dangling or looping link resolves to NoEntry
RECURSIVE Resolve(_, _, _)
Resolve(siblings, e, fuel) ==
    IF e.kind # "link" THEN e
    ELSE IF fuel = 0 THEN NoEntry
    ELSE Resolve(siblings, Named(siblings, e.target), fuel - 1)

\* os.path.isdir(f.path) for entry f of a directory with permission mode
IsDir(siblings, f, mode) ==
    mode = "rx" /\ Resolve(siblings, f, Len(siblings)).kind = "dir"

\* os.path.realpath of the entry called name of the directory dir_path with
\* these entries: symlinks are followed from name to name; a missing name,
\* or a name met a second time (a loop), ends the walk
RECURSIVE RealChain(_, _, _, _)
RealChain(dir_path, entries, name, seen) ==
    IF Named(entries, name).kind = "link" /\ name \notin seen
    THEN RealChain(dir_path, entries, Named(entries, name).target, seen \cup {name})
    ELSE Join(dir_path, name)

\* os.path.realpath(name) evaluated in the working directory cwd: the name
\* is looked up in cwd, not in the directory being scanned.  cwd is either
\* the source root (entries root) or a directory without such entries.
Realpath(cwd, root, name) ==
    IF cwd = RootPath THEN RealChain(RootPath, root, name, {}) ELSE Join(cwd, name)

(* ---------------------------- Asar.compress ---------------------------- *)
should_exclude(exclude_patterns, file_path) ==
    \E i \in 1..Len(exclude_patterns) : Contains(file_path, exclude_patterns[i])

\* {'size': size, 'offset': str(offset)}
FileNode(size, offset) == JObj(<<<<K_size, JInt(size)>>, <<K_offset, JStr(Dec(offset))>>>>)

\* {'link': target}
LinkNode(target) == JObj(<<<<K_link, JStr(target)>>>>)

\* {'files': {...}}
DirNode(files) == JObj(<<<<K_files, files>>>>)

\* _path_to_dict(dir_path) for the directory d, started with the nonlocal
\* offset and paths; env = [pats, cwd, root].  Returns [result, offset, paths].
RECURSIVE path_to_dict(_, _, _, _, _)
\* the for loop of _path_to_dict from entry i on; st = [files, offset, paths]
RECURSIVE ScanLoop(_, _, _, _, _)

\* result['files'][f.name] = _path_to_dict(f.path), sub being what the call
\* returned and left in offset and paths
AfterSubdir(st, f, sub) ==
    [files |-> Put(st.files, f.name, sub.result),
     offset |-> sub.offset, paths |-> sub.paths]

\* one pass of the loop body for the entry f of d, not excluded; done says
\* that PermissionError ended the loop
ScanEntry(env, dir_path, d, f, st) ==
    IF IsDir(d.children, f, d.mode)
    THEN [done |-> FALSE,
          st |-> AfterSubdir(st, f,
                     path_to_dict(env, Join(dir_path, f.name),
                                  Resolve(d.children, f, Len(d.children)),
                                  st.offset, st.paths))]
    ELSE IF f.kind = "link"
    THEN [done |-> FALSE,
          st |-> [st EXCEPT !.files =
                     Put(st.files, f.name, LinkNode(Realpath(env.cwd, env.root, f.name)))]]
    ELSE IF d.mode = "r"
    \* paths.append(f.path) is done, then f.stat() raises PermissionError
    THEN [done |-> TRUE,
          st |-> [st EXCEPT !.paths = Append(st.paths, Join(dir_path, f.name))]]
    ELSE [done |-> FALSE,
          st |-> [files |-> Put(st.files, f.name, FileNode(Len(f.data), st.offset)),
                  offset |-> st.offset + Len(f.data),
                  paths |-> Append(st.paths, Join(dir_path, f.name))]]

AfterEntry(env, dir_path, d, i, r) ==
    IF r.done THEN r.st ELSE ScanLoop(env, dir_path, d, i + 1, r.st)

ScanLoop(env, dir_path, d, i, st) ==
    IF i > Len(d.children) THEN st
    ELSE IF should_exclude(env.pats, Join(dir_path, d.children[i].name))
         THEN ScanLoop(env, dir_path, d, i + 1, st)
    ELSE AfterEntry(env, dir_path, d, i, ScanEntry(env, dir_path, d, d.children[i], st))

\* return result, with the nonlocals as the loop left them
ScanResult(st) == [result |-> DirNode(st.files), offset |-> st.offset, paths |-> st.paths]

path_to_dict(env, dir_path, d, offset, paths) ==
    IF d.mode = "none"
    \* os.scandir raises PermissionError: result stays {'files': {}}
    THEN [result |-> DirNode(JObj(<<>>)), offset |-> offset, paths |-> paths]
    ELSE ScanResult(ScanLoop(env, dir_path, d, 1,
                             [files |-> JObj(<<>>), offset |-> offset, paths |-> paths]))

\* open(file_path, 'rb').read() for the components parts below a directory:
\* [ok, data]; ok = FALSE is the exception _paths_to_bytes catches
RECURSIVE ReadBelow(_, _)
ReadEntry(e, parts) ==
    IF Len(parts) = 1
    THEN IF e.kind = "file" /\ e.readable
         THEN [ok |-> TRUE, data |-> e.data]
         ELSE [ok |-> FALSE, data |-> <<>>]
    ELSE IF e.kind = "dir" THEN ReadBelow(e, Tail(parts))
    ELSE [ok |-> FALSE, data |-> <<>>]

ReadBelow(d, parts) ==
    IF d.mode # "rx" \/ parts = <<>> THEN [ok |-> FALSE, data |-> <<>>]
    ELSE ReadEntry(Resolve(d.children, Named(d.children, Head(parts)), Len(d.children)),
                   parts)

ReadFile(root, file_path) ==
    ReadBelow(DirEntry(<<>>, root, "rx"), SplitSlash(Drop(file_path, Len(RootPath) + 2)))

\* _paths_to_bytes(file_paths): a file that cannot be read contributes nothing
ReadOrNothing(r) == IF r.ok THEN r.data ELSE <<>>

RECURSIVE paths_to_bytes(_, _)
paths_to_bytes(root, file_paths) ==
    IF file_paths = <<>> THEN <<>>
    ELSE ReadOrNothing(ReadFile(root, Head(file_paths)))
         \o paths_to_bytes(root, Tail(file_paths))

\* lines 100-116 of Asar.compress: the sizes, the padding, the three writes
\* to the BytesIO and the instance returned
WriteArchive(header, paths, offset, header_json, header_string_size, aligned_size, payload) ==
    [header |-> header,
     paths |-> paths,
     offset |-> offset,
     payload |-> payload,
     header_string_size |-> header_string_size,
     fp |-> Pack4I(4, aligned_size + 8, aligned_size + 4, header_string_size)
            \o (IF aligned_size - header_string_size # 0
                THEN header_json \o Nuls(aligned_size - header_string_size)
                ELSE header_json)
            \o payload,
     base_offset |-> round_up(16 + header_string_size, 4)]

\* lines 98-99: header_json and header_string_size
EncodeHeader(header, paths, offset, header_json, payload) ==
    WriteArchive(header, paths, offset, header_json, Len(header_json),
                 round_up(Len(header_json), 4), payload)

\* what follows header = _path_to_dict(path), built being that call's
\* result and the nonlocals offset and paths
AfterBuild(root, built) ==
    EncodeHeader(built.result, built.paths, built.offset,
                 JsonDumpsSorted(built.result), paths_to_bytes(root, built.paths))

\* the body of Asar.compress for the source directory root: the locals and
\* the fields of the instance it returns
compress(root, exclude_patterns, cwd) ==
    AfterBuild(root,
               path_to_dict([pats |-> exclude_patterns, cwd |-> cwd, root |-> root],
                            RootPath, DirEntry(<<>>, root, "rx"), 0, <<>>))

(* ------------------------------ Asar.open ------------------------------ *)
OpenRaised(e) == [exc |-> e, header |-> JTrue, base_offset |-> 0]

\* header=json.loads(header_json), base_offset=round_up(16 + header_string_size, 4)
OpenParsed(header_string_size, parsed) ==
    IF ~parsed.ok THEN OpenRaised("JSONDecodeError")
    ELSE [exc |-> "none", header |-> parsed.v,
          base_offset |-> round_up(16 + header_string_size, 4)]

\* header_json = fp.read(header_string_size).decode('utf-8')
OpenDecode(header_string_size, raw) ==
    IF ~Utf8Ok(raw) THEN OpenRaised("UnicodeDecodeError")
    ELSE OpenParsed(header_string_size, JsonLoads(raw))

OpenHeader(data, header_string_size) ==
    OpenDecode(header_string_size, Take(Drop(data, 17), header_string_size))

\* the body of Asar.open on a file holding the bytes data: exc is "none" or
\* the exception raised between fp = open(path, 'rb') and the return, which
\* the except clause re-raises as Exception("Failed to open ASAR file")
open_asar(data) ==
    IF Len(data) < 16 THEN OpenRaised("struct.error")
    ELSE OpenHeader(data, UnLE32(SubSeq(data, 13, 16)))

(* ---------------------------- Asar.list_files -------------------------- *)
\* _walk_files(files_dict, current_path): the entries appended to files
RECURSIVE walk_files(_, _)
RECURSIVE WalkItems(_, _)

\* the loop body for one item, full_path being its path with '/' separators
WalkItem(info, full_path) ==
    IF HasKey(info, K_files)
    THEN <<full_path \o <<SLASH>>>> \o walk_files(Get(info, K_files), full_path)
    ELSE <<full_path>>

WalkItems(kv, current_path) ==
    IF kv = <<>> THEN <<>>
    ELSE WalkItem(kv[1][2], ReplaceBackslash(Join(current_path, kv[1][1])))
         \o WalkItems(Tail(kv), current_path)

walk_files(files_dict, current_path) == WalkItems(files_dict.kv, current_path)

\* [f for f in files if f.startswith(prefix)]
RECURSIVE FilterPrefix(_, _)
FilterPrefix(files, prefix) ==
    IF files = <<>> THEN <<>>
    ELSE (IF StartsWith(Head(files), prefix) THEN <<Head(files)>> ELSE <<>>)
         \o FilterPrefix(Tail(files), prefix)

list_files(header, prefix) == FilterPrefix(walk_files(Get(header, K_files), <<>>), prefix)

(* --------------------------- Asar.extract_file ------------------------- *)
\* the value _find_file returns: [found, info]; found = FALSE is None
NotFound == [found |-> FALSE, info |-> JTrue]

\* _find_file returning the first component's node whatever follows it
FindFirst(info, path_parts) == [found |-> TRUE, info |-> info]

RECURSIVE find_file(_, _)
FindIn(info, path_parts) ==
    IF Len(path_parts) = 1 THEN [found |-> TRUE, info |-> info]
    ELSE IF HasKey(info, K_files) THEN find_file(Get(info, K_files), Tail(path_parts))
    ELSE NotFound

find_file(files_dict, path_parts) ==
    IF path_parts = <<>> THEN NotFound
    ELSE IF ~HasKey(files_dict, path_parts[1]) THEN NotFound
    ELSE FindIn(Get(files_dict, path_parts[1]), path_parts)

\* int(x) for the value of an 'offset' or 'size' key
IntOf(v) == IF v.t = "int" THEN v.n ELSE ParseInt(v.s).n

\* fp.seek(pos); fp.read(n) on storage holding data: at most n bytes, fewer
\* when the storage ends first, and no exception
SeekRead(data, pos, n) ==
    IF pos >= Len(data) THEN <<>> ELSE Take(Drop(data, pos + 1), n)

\* lines 154-158 of extract_file, r being what _find_file returned:
\* [exc, data, read]; read says whether fp was used
ReadFound(r, base_offset, data) ==
    IF ~r.found \/ r.info.kv = <<>> \/ ~HasKey(r.info, K_offset)
    THEN [exc |-> "FileNotFoundError", data |-> <<>>, read |-> FALSE]
    ELSE [exc |-> "none",
          data |-> SeekRead(data, base_offset + IntOf(Get(r.info, K_offset)),
                            IntOf(Get(r.info, K_size))),
          read |-> TRUE]

\* extract_file(file_path) on an instance with this header and base_offset
\* whose fp holds data
extract_file(header, base_offset, data, file_path) ==
    ReadFound(find_file(Get(header, K_files), SplitSlash(ReplaceBackslash(file_path))),
              base_offset, data)

(* ----------------------------- Asar.extract ---------------------------- *)
\* The destination file system is a set of records [path, kind, data] with
\* absolute normalised paths; kind is "dir", "file" or "link" and data is a
\* file's content or a link's target.
FsEntry(path, kind, data) == [path |-> path, kind |-> kind, data |-> data]

\* the entry at the normalised path p, if any
HasPath(fs, p) == \E e \in fs : e.path = p

\* os.path.exists(path)
Exists(fs, path) == HasPath(fs, Normpath(path))

\* os.path.isdir(path)
HasDir(fs, p) == \E e \in fs : e.path = p /\ e.kind = "dir"

IsDirFs(fs, path) == HasDir(fs, Normpath(path))

\* os.makedirs(path, exist_ok=True): the directory at the normalised path p
\* and its missing ancestors
RECURSIVE MakedirsNorm(_, _)
MakedirsNorm(fs, p) ==
    IF p = <<SLASH>> \/ p = S_dot \/ HasPath(fs, p) THEN fs
    ELSE MakedirsNorm(fs, Normpath(Dirname(p))) \cup {FsEntry(p, "dir", <<>>)}

Makedirs(fs, path) == MakedirsNorm(fs, Normpath(path))

\* open(dest, 'wb').write(r) and os.symlink: the entry at path is replaced
WriteNorm(fs, p, kind, data) == {e \in fs : e.path # p} \cup {FsEntry(p, kind, data)}

WriteEntry(fs, path, kind, data) == WriteNorm(fs, Normpath(path), kind, data)

\* the content of the file at the normalised path p
DataAt(fs, p) == (CHOOSE x \in fs : x.path = p).data

\* lines 175-182 of _copy_unpacked_file
CopyFrom(fs, src, dest) ==
    IF ~Exists(fs, src) THEN fs
    ELSE WriteEntry(Makedirs(fs, Dirname(dest)), dest, "file", DataAt(fs, Normpath(src)))

\* _copy_unpacked_file(source, destination)
copy_unpacked_file(inst, fs, source, destination) ==
    IF ~IsDirFs(fs, inst.path \o S_unpackedSuffix) THEN fs
    ELSE CopyFrom(fs, Join(inst.path \o S_unpackedSuffix, source), Join(destination, source))

\* lines 192-195 of _extract_file: r is written to dest
WriteTo(fs, dest, r) == WriteEntry(Makedirs(fs, Dirname(dest)), dest, "file", r)

\* _extract_file(source, info, destination)
extract_file_to(inst, fs, source, info, destination) ==
    IF ~HasKey(info, K_offset) THEN copy_unpacked_file(inst, fs, source, destination)
    ELSE WriteTo(fs, Join(destination, source),
                 SeekRead(inst.data, inst.base_offset + IntOf(Get(info, K_offset)),
                          IntOf(Get(info, K_size))))

\* _extract_link(source, link, destination); the EEXIST branch unlinks the
\* entry and links again, which WriteEntry's replacement covers
extract_link(fs, source, link, destination) ==
    WriteEntry(fs, Normpath(Join(destination, source)), "link",
               Join(Dirname(Join(destination, link)), Basename(link)))

\* _extract_directory(source, files, destination)
RECURSIVE extract_directory(_, _, _, _, _)
RECURSIVE ExtractItems(_, _, _, _, _)

\* the loop body for the item info at item_path
ExtractItem(inst, fs, item_path, info, destination) ==
    IF HasKey(info, K_files)
    THEN extract_directory(inst, fs, item_path, Get(info, K_files), destination)
    ELSE IF HasKey(info, K_link)
    THEN extract_link(fs, item_path, Get(info, K_link).s, destination)
    ELSE extract_file_to(inst, fs, item_path, info, destination)

ExtractItems(inst, fs, source, kv, destination) ==
    IF kv = <<>> THEN fs
    ELSE ExtractItems(inst,
                      ExtractItem(inst, fs, Join(source, kv[1][1]), kv[1][2], destination),
                      source, Tail(kv), destination)

extract_directory(inst, fs, source, files, destination) ==
    ExtractItems(inst, Makedirs(fs, Join(destination, source)), source, files.kv,
                 destination)

\* extract without the os.path.exists test
extract_unchecked(inst, fs, path) ==
    [exc |-> "none",
     fs |-> extract_directory(inst, fs, S_dot, Get(inst.header, K_files), path)]

\* extract(path): [exc, fs]
extract(inst, fs, path) ==
    IF Exists(fs, path) THEN [exc |-> "FileExistsError", fs |-> fs]
    ELSE [exc |-> "none",
          fs |-> extract_directory(inst, fs, S_dot, Get(inst.header, K_files), path)]

(* --------------------------- inputs of the model ----------------------- *)
\* entry names "a" and "b"
Names == {<<97>>, <<98>>}

\* the content of a regular file called name of the given size: the bytes
\* name, name+1, ... so that the files of a directory differ in content
FileData(name, size) == [i \in 1..size |-> name[1] + i - 1]

\* what a directory can hold besides a non-empty directory: readable files
\* of every size, unreadable non-empty files, symlinks to a name of the same
\* directory (itself included) and empty directories
Leaves ==
    {FileEntry(nm, FileData(nm, sz), TRUE) : nm \in Names, sz \in 0..MaxSize}
    \cup {FileEntry(nm, FileData(nm, sz), FALSE) : nm \in Names, sz \in 1..MaxSize}
    \cup {LinkEntry(nm, tg) : nm \in Names, tg \in Names}
    \cup {DirEntry(nm, <<>>, "rx") : nm \in Names}

\* source directories: flat ones, with any entries under distinct names in
\* any scan order, and ones that hold a single subdirectory with one entry
\* and any of the three permission modes
SourceTrees ==
    {<<>>}
    \cup {<<e>> : e \in Leaves}
    \cup {<<p[1], p[2]>> : p \in {q \in Leaves \X Leaves : q[1].name # q[2].name}}
    \cup {<<DirEntry(nm, <<e>>, md)>> : nm \in Names, e \in Leaves, md \in {"rx", "none", "r"}}

\* exclusion pattern lists: none and ["q", "a"]
PatternLists == {<<>>, <<<<113>>, <<97>>>>}

\* the archive path given to the readers and its sidecar directory
ArchivePath == <<SLASH, 120>>
UnpackedDir == ArchivePath \o S_unpackedSuffix

\* extraction destinations: "/d" is absent at first, "/f" is a regular file
DestD == <<SLASH, 100>>
DestF == <<SLASH, 102>>
Dests == {DestD, DestF}

\* the path extract_asar_file writes to
OutputPath == <<SLASH, 111>>

InitialFs == {FsEntry(DestF, "file", <<102>>)}

\* the same with the sidecar directory "/x.unpacked" holding a file "a"
SidecarFs ==
    InitialFs \cup {FsEntry(UnpackedDir, "dir", <<>>),
                    FsEntry(Join(UnpackedDir, <<97>>), "file", <<117>>)}

\* the file paths asked of extract_asar_file: "", "a", "a\b"
QueryPaths == {<<>>, <<97>>, <<97, BACKSLASH, 98>>}

\* an archive file as another packer writes it: the 16-byte record, the
\* tree description text padded to a multiple of 4, the payload
ArchiveBytes(text, payload) ==
    LET aligned == round_up(Len(text), 4)
    IN Pack4I(4, aligned + 8, aligned + 4, Len(text))
       \o text \o Nuls(aligned - Len(text)) \o payload

\* Archives that pack_asar did not write.  One with an unpacked entry "a"
\* (no offset; its content is in the sidecar directory) beside a packed
\* file "b"; one whose payload was cut short; one shorter than the 16-byte
\* record; one whose tree description is not JSON; one whose tree
\* description is not UTF-8.
ForeignArchives ==
    {ArchiveBytes(JsonDumpsSorted(DirNode(JObj(
         <<<<<<97>>, JObj(<<<<K_size, JInt(1)>>, <<K_unpacked, JTrue>>>>)>>,
           <<<<98>>, FileNode(1, 0)>>>>))), <<98>>),
     ArchiveBytes(JsonDumpsSorted(DirNode(JObj(<<<<<<97>>, FileNode(2, 0)>>>>))), <<97>>),
     <<4, 0, 0>>,
     ArchiveBytes(<<LBRACE, QUOTE>>, <<>>),
     ArchiveBytes(<<255>>, <<>>)}

NoFile == [exists |-> FALSE, data |-> <<>>]
NotBuilt == [done |-> FALSE, header |-> JTrue, paths |-> <<>>, offset |-> 0,
             payload |-> <<>>, header_string_size |-> 0, base_offset |-> 0,
             cwd |-> <<>>]

(* ------------------------------ the state ------------------------------ *)
VARIABLES
    src,       \* the entries of the source directory RootPath, in scan order
    pats,      \* the exclude_patterns the caller packs with
    asarFile,  \* the file at ArchivePath: [exists, data]
    built,     \* the locals of the latest Asar.compress call
    fs,        \* the destination file system
    fds,       \* the number of file objects opened and not closed
    out        \* the outcome of the latest operation: [op, arg, exc, val, read]

vars == <<src, pats, asarFile, built, fs, fds, out>>

\* the most file objects left open that the model follows
MaxLeaked == 2

\* Before any operation: a source directory and pattern list with no
\* archive written yet, or an archive that came from elsewhere
Init ==
    /\ \/ /\ src \in SourceTrees
          /\ pats \in PatternLists
          /\ asarFile = NoFile
          /\ fs = InitialFs
       \/ /\ src = <<>>
          /\ pats = <<>>
          /\ asarFile \in {[exists |-> TRUE, data |-> d] : d \in ForeignArchives}
          /\ fs \in {InitialFs, SidecarFs}
    /\ built = NotBuilt
    /\ fds = 0
    /\ out = [op |-> "none", arg |-> <<>>, exc |-> "none", val |-> <<>>, read |-> FALSE]

\* the instance a successful Asar.open(ArchivePath) returns
OpenedInst(o) ==
    [path |-> ArchivePath, data |-> asarFile.data, header |-> o.header,
     base_offset |-> o.base_offset]

\* the locals of a compress call that returned c, made in the directory cwd
BuiltBy(c, cwd) ==
    [done |-> TRUE, header |-> c.header, paths |-> c.paths, offset |-> c.offset,
     payload |-> c.payload, header_string_size |-> c.header_string_size,
     base_offset |-> c.base_offset, cwd |-> cwd]

Outcome(op, arg, exc, val, read) ==
    [op |-> op, arg |-> arg, exc |-> exc, val |-> val, read |-> read]

\* pack_asar(RootPath, ArchivePath, pats) run in the working directory cwd:
\* compress, then the BytesIO is copied to the destination file; both file
\* objects are closed by their with blocks
PackAsar(cwd) ==
    \E c \in {compress(src, pats, cwd)} :
        /\ asarFile' = [exists |-> TRUE, data |-> c.fp]
        /\ built' = BuiltBy(c, cwd)
        /\ out' = Outcome("pack_asar", cwd, "none", <<>>, FALSE)
        /\ UNCHANGED <<src, pats, fs, fds>>

\* Asar.open(ArchivePath) as the with statements of the module-level
\* functions call it: [exc, opened, header, base_offset].  opened says that
\* fp = open(path, 'rb') succeeded; when a later line of open raises, that
\* file object is neither closed nor returned.
Opened(o) ==
    [exc |-> o.exc, opened |-> TRUE, header |-> o.header, base_offset |-> o.base_offset]

OpenArchive ==
    IF ~asarFile.exists
    THEN [exc |-> "FileNotFoundError", opened |-> FALSE, header |-> JTrue, base_offset |-> 0]
    ELSE Opened(open_asar(asarFile.data))

\* the state after a with statement whose Asar.open raised: __exit__ is
\* never run, the caller sees Exception("Failed to open ASAR file: ...")
OpenFailed(o, op, arg) ==
    /\ o.opened => fds < MaxLeaked
    /\ fds' = IF o.opened THEN fds + 1 ELSE fds
    /\ out' = Outcome(op, arg, "Exception", <<>>, FALSE)
    /\ UNCHANGED <<src, pats, asarFile, built, fs>>

\* extract_asar(ArchivePath, dest)
ExtractAsar(dest) ==
    \E o \in {OpenArchive} :
        IF o.exc # "none" THEN OpenFailed(o, "extract_asar", dest)
        ELSE \E r \in {extract(OpenedInst(o), fs, dest)} :
                 /\ fs' = r.fs
                 /\ out' = Outcome("extract_asar", dest, r.exc, <<>>, FALSE)
                 /\ UNCHANGED <<src, pats, asarFile, built, fds>>

\* list_asar_files(ArchivePath)
ListAsarFiles ==
    \E o \in {OpenArchive} :
        IF o.exc # "none" THEN OpenFailed(o, "list_asar_files", <<>>)
        ELSE /\ out' = Outcome("list_asar_files", <<>>, "none",
                               list_files(o.header, <<>>), FALSE)
             /\ UNCHANGED <<src, pats, asarFile, built, fs, fds>>

\* extract_asar_file(ArchivePath, file_path, OutputPath)
ExtractAsarFile(file_path) ==
    \E o \in {OpenArchive} :
        IF o.exc # "none" THEN OpenFailed(o, "extract_asar_file", file_path)
        ELSE \E r \in {extract_file(o.header, o.base_offset, asarFile.data, file_path)} :
                 /\ fs' = IF r.exc = "none"
                          THEN WriteEntry(fs, OutputPath, "file", r.data) ELSE fs
                 /\ out' = Outcome("extract_asar_file", file_path, r.exc, r.data, r.read)
                 /\ UNCHANGED <<src, pats, asarFile, built, fds>>

Next ==
    \/ \E cwd \in {RootPath, OtherCwd} : PackAsar(cwd)
    \/ \E dest \in Dests : ExtractAsar(dest)
    \/ ListAsarFiles
    \/ \E file_path \in QueryPaths : ExtractAsarFile(file_path)

Spec == Init /\ [][Next]_vars

(* ------------------------- notions of the claims ----------------------- *)
\* align4(n): the least multiple of 4 that is at least n
Align4(n) == CHOOSE k \in n..(n + 3) : k % 4 = 0

\* the names of a directory node's children
KeysOf(d) == {d.kv[i][1] : i \in 1..Len(d.kv)}

\* a node that carries a size and is neither a directory nor a symlink
IsFileNode(n) ==
    n.t = "obj" /\ HasKey(n, K_size) /\ ~HasKey(n, K_files) /\ ~HasKey(n, K_link)

\* lookup: the node the segments lead to from node, Missing when a segment
\* is absent or the walk would descend into a node that is no directory
Missing == [t |-> "none", kv |-> <<>>, s |-> <<>>, n |-> 0]

RECURSIVE NodeAt(_, _)
NodeAt(node, segments) ==
    IF segments = <<>> THEN node
    ELSE IF HasKey(node, K_files) /\ HasKey(Get(node, K_files), Head(segments))
         THEN NodeAt(Get(Get(node, K_files), Head(segments)), Tail(segments))
    ELSE Missing

\* the tree description of the archive at ArchivePath, as open decodes it
ArchiveTree == open_asar(asarFile.data).header

\* the node the latest extract_asar_file call asked for
AskedNode == NodeAt(ArchiveTree, SplitSlash(ReplaceBackslash(out.arg)))

\* the latest operation was extract_asar_file and Asar.open succeeded
AskedFile == out.op = "extract_asar_file" /\ out.exc # "Exception"

\* the File nodes below a directory node's children kv, in the order the
\* build inserted them: [path, size, offset]
RECURSIVE FilesInOrder(_, _)
FilesInOrder(kv, dir_path) ==
    IF kv = <<>> THEN <<>>
    ELSE (IF HasKey(kv[1][2], K_files)
          THEN FilesInOrder(Get(kv[1][2], K_files).kv, Join(dir_path, kv[1][1]))
          ELSE IF IsFileNode(kv[1][2])
          THEN <<[path |-> Join(dir_path, kv[1][1]),
                  size |-> IntOf(Get(kv[1][2], K_size)),
                  offset |-> IntOf(Get(kv[1][2], K_offset))]>>
          ELSE <<>>)
         \o FilesInOrder(Tail(kv), dir_path)

\* offset[0] = 0 and offset[i+1] = offset[i] + size[i]
Contiguous(nodes) ==
    \A i \in 1..Len(nodes) :
        nodes[i].offset = IF i = 1 THEN 0 ELSE nodes[i - 1].offset + nodes[i - 1].size

\* the source path of every node below a directory node's children kv
RECURSIVE TreePaths(_, _)
TreePaths(kv, dir_path) ==
    IF kv = <<>> THEN {}
    ELSE {Join(dir_path, kv[1][1])}
         \cup (IF HasKey(kv[1][2], K_files)
               THEN TreePaths(Get(kv[1][2], K_files).kv, Join(dir_path, kv[1][1]))
               ELSE {})
         \cup TreePaths(Tail(kv), dir_path)

\* what extraction to dest_path owes the entries of the source directory
\* src_path: a file with its bytes, a directory, a symlink with its target
\* (real is the real path of the link, resolved in the link's own
\* directory).  Excluded entries are owed nothing, and neither is the
\* content of a directory that could not be enumerated.
OwedEntry(path, kind, data, real) ==
    [path |-> path, kind |-> kind, data |-> data, real |-> real]

RECURSIVE Owed(_, _, _)
Owed(entries, src_path, dest_path) ==
    UNION {IF should_exclude(pats, Join(src_path, entries[i].name)) THEN {}
           ELSE IF entries[i].kind = "file"
           THEN {OwedEntry(Join(dest_path, entries[i].name), "file", entries[i].data, <<>>)}
           ELSE IF entries[i].kind = "link"
           THEN {OwedEntry(Join(dest_path, entries[i].name), "link", entries[i].target,
                           RealChain(src_path, entries, entries[i].name, {}))}
           ELSE {OwedEntry(Join(dest_path, entries[i].name), "dir", <<>>, <<>>)}
                \cup (IF entries[i].mode = "rx"
                      THEN Owed(entries[i].children, Join(src_path, entries[i].name),
                                Join(dest_path, entries[i].name))
                      ELSE {})
           : i \in 1..Len(entries)}

\* the entry x is reproduced in the file system: a symlink counts with its
\* literal target, with the same name taken in its own new directory, or
\* with its real path
Reproduced(x) ==
    IF x.kind = "link"
    THEN \E y \in fs : /\ y.path = x.path
                       /\ y.kind = "link"
                       /\ y.data \in {x.data, Join(Dirname(x.path), x.data), x.real}
    ELSE FsEntry(x.path, x.kind, x.data) \in fs

\* the listing of a directory node's children taken in ascending name
\* order, depth first, a directory marked by a trailing '/'
RECURSIVE AscendingListing(_, _, _)
AscendingListing(files, names, current) ==
    IF names = {} THEN <<>>
    ELSE LET nm == CHOOSE x \in names : \A y \in names : x = y \/ LexLess(x, y)
             full == IF current = <<>> THEN nm ELSE current \o <<SLASH>> \o nm
         IN (IF HasKey(Get(files, nm), K_files)
             THEN <<full \o <<SLASH>>>>
                  \o AscendingListing(Get(Get(files, nm), K_files),
                                      KeysOf(Get(Get(files, nm), K_files)), full)
             ELSE <<full>>)
            \o AscendingListing(files, names \ {nm}, current)

\* the latest operation packed the source into the archive
Packed == built.done /\ out.op = "pack_asar"

\* the latest operation extracted the packed archive into the fresh DestD
ExtractedFresh ==
    built.done /\ out.op = "extract_asar" /\ out.arg = DestD /\ out.exc = "none"

\* the latest operation listed the packed archive after reopening it
ListedPacked == built.done /\ out.op = "list_asar_files" /\ out.exc = "none"

(* -------------------------------- claims ------------------------------- *)
\* C1: packing the source directory and extracting the written archive to a
\* fresh destination reproduces every non-excluded regular file with its
\* bytes, every non-excluded directory and every non-excluded symlink with
\* its target.
C1_RoundTrip ==
    ExtractedFresh =>
        /\ FsEntry(DestD, "dir", <<>>) \in fs
        /\ \A x \in Owed(src, RootPath, DestD) : Reproduced(x)

\* C2: in the tree of one pack call the File nodes, in the order the
\* traversal assigned them, have offset[0] = 0 and offset[i+1] = offset[i] +
\* size[i], and the list of paths to read has the same length and order as
\* those File nodes.
C2_OffsetsAndPaths ==
    built.done =>
        LET nodes == FilesInOrder(Get(built.header, K_files).kv, RootPath)
        IN /\ Contiguous(nodes)
           /\ built.paths = [i \in 1..Len(nodes) |-> nodes[i].path]

\* C3: in every archive pack writes, the 16-byte record holds 4,
\* align4(headerStringSize) + 8, align4(headerStringSize) + 4 and
\* headerStringSize, the exact length of the tree description; the
\* description is padded with NULs to align4(headerStringSize); the payload
\* starts at align4(16 + headerStringSize), the base offset open computes.
C3_HeaderLayout ==
    built.done =>
        LET d == asarFile.data
            n == built.header_string_size
        IN /\ Len(d) = Align4(16 + n) + Len(built.payload)
           /\ UnLE32(SubSeq(d, 1, 4)) = 4
           /\ UnLE32(SubSeq(d, 5, 8)) = Align4(n) + 8
           /\ UnLE32(SubSeq(d, 9, 12)) = Align4(n) + 4
           /\ UnLE32(SubSeq(d, 13, 16)) = n
           /\ n > 0 /\ d[17] = LBRACE /\ d[16 + n] = RBRACE
           /\ JsonLoads(SubSeq(d, 17, 16 + n)).ok
           /\ \A i \in (16 + n + 1)..(16 + Align4(n)) : d[i] = 0
           /\ 16 + Align4(n) = Align4(16 + n)
           /\ Drop(d, Align4(16 + n) + 1) = built.payload
           /\ built.base_offset = Align4(16 + n)
           /\ open_asar(d).exc = "none"
           /\ open_asar(d).base_offset = Align4(16 + n)

\* a pack wrote an archive whose tree description needed padding and whose
\* payload is not empty
C3_Witness ==
    Packed /\ built.payload # <<>> /\ built.header_string_size % 4 # 0

\* C4: extract to a destination that exists fails with FileExistsError and
\* leaves the file system as it was; it proceeds, creating the destination,
\* only when the destination is absent.
C4_ExistingDestination ==
    [][(out'.op = "extract_asar" /\ out'.exc # "Exception") =>
          IF Exists(fs, out'.arg)
          THEN out'.exc = "FileExistsError" /\ fs' = fs
          ELSE out'.exc = "none" /\ IsDirFs(fs', out'.arg)]_vars

\* extraction into DestD was refused while DestD held extracted entries
C4_Witness ==
    /\ out.op = "extract_asar" /\ out.arg = DestD /\ out.exc = "FileExistsError"
    /\ \E e \in fs : StartsWith(e.path, DestD \o <<SLASH>>)

\* C5 as stated: extract_file raises FileNotFoundError without reading the
\* archive for every path that does not resolve to a File node, and returns
\* bytes for every path that resolves to a File node.
C5_NotFoundAsStated ==
    AskedFile =>
        IF IsFileNode(AskedNode)
        THEN out.exc = "none" /\ out.read
        ELSE out.exc = "FileNotFoundError" /\ ~out.read

\* C5 amended: extract_file returns bytes exactly for the paths that resolve
\* to a File node with an offset; for every other path, a File node without
\* an offset included, it raises FileNotFoundError without reading the
\* archive.
C5_NotFound ==
    AskedFile =>
        IF IsFileNode(AskedNode) /\ HasKey(AskedNode, K_offset)
        THEN out.exc = "none" /\ out.read
        ELSE out.exc = "FileNotFoundError" /\ ~out.read

\* a File node without an offset was asked for and reported not found
C5_Witness ==
    /\ AskedFile /\ IsFileNode(AskedNode) /\ ~HasKey(AskedNode, K_offset)
    /\ out.exc = "FileNotFoundError"

\* C6: an extract_file that succeeds returns exactly size bytes; a File node
\* whose byte range passes the end of the archive makes it fail instead.
C6_ExactRead ==
    (AskedFile /\ out.exc = "none") =>
        Len(out.val) = IntOf(Get(AskedNode, K_size))

\* C7: every archive pack produces has a payload as long as the final
\* running offset, the sum of the File sizes of its tree; a file that cannot
\* be read makes the pack fail.
C7_PayloadLength ==
    built.done =>
        /\ Len(built.payload) = built.offset
        /\ Len(asarFile.data) = built.base_offset + built.offset

\* C8: no path of the tree or of the file list contains an exclusion
\* pattern; against packing the same directory without patterns the payload
\* is shorter by exactly the total size of the File nodes the patterns
\* removed; the remaining offsets are contiguous from 0.
C8_Exclusion ==
    built.done =>
        /\ \A p \in TreePaths(Get(built.header, K_files).kv, RootPath) :
               ~should_exclude(pats, p)
        /\ \A i \in 1..Len(built.paths) : ~should_exclude(pats, built.paths[i])
        /\ Contiguous(FilesInOrder(Get(built.header, K_files).kv, RootPath))
        /\ \E all \in {compress(src, <<>>, built.cwd)} :
               Len(all.payload) - Len(built.payload) = all.offset - built.offset

C10_HandlesReleased == fds = 0

====
